---- MODULE Spec2Model ----
(***************************************************************************)
(* Model of the Markov text generator: the engine                          *)
(* (src/utils/MarkovChain.ts) and the component that drives it             *)
(* (src/components/markov/MarkovGenerator.tsx inside src/app/page.tsx).    *)
(*                                                                         *)
(* A JavaScript string is a sequence of one-character strings; a token and *)
(* a state key are such strings.  A JavaScript Map is a sequence of        *)
(* [key, val] records in insertion order (Map iteration order).            *)
(***************************************************************************)
EXTENDS Integers, Sequences, FiniteSets, TLC

VARIABLES
    order,            \* MarkovChain.order
    transitionTable,  \* MarkovChain.transitionTable
    startStates,      \* MarkovChain.startStates
    call,             \* the method that ran last, with its small arguments
    ret,              \* its outcome: error thrown or value returned
    tokens,           \* train's local `tokens` in the call that built the table
    result,           \* generate's local `result` array, when generate ran last
    input             \* arguments of the call under test (pure-function specs)

VARIABLES
    home,             \* the useState values of Home: inputText, generatedText, error
    generator,        \* the useState values of MarkovGenerator: markovChain, order,
                      \* segmentType, modelStats, isTraining, isGenerating
    flow              \* the trainModel / generateText call in flight: what its
                      \* closure captured, where it stands, what it did

hostVars == <<home, generator, flow>>

vars == <<order, transitionTable, startStates, call, ret, tokens, result, input, hostVars>>

(***************************************************************************)
(* Bounds                                                                  *)
(***************************************************************************)
MaxLen == 3        \* longest corpus
MaxOrder == 2      \* largest constructor argument
MaxGenLen == 2     \* largest `length` passed to generate

SP == " "
TAB == "\t"
Whitespace == {SP, TAB}
Letters == {"a", "b"}
Alphabet == Letters \cup {SP}

RECURSIVE StringsUpTo(_, _)
StringsUpTo(chars, n) ==
    IF n = 0 THEN {<<>>}
    ELSE LET shorter == StringsUpTo(chars, n - 1)
         IN  shorter \cup {Append(s, c) : s \in {t \in shorter : Len(t) = n - 1}, c \in chars}

Corpora == StringsUpTo(Alphabet, MaxLen)
Modes == {"char", "word"}

(***************************************************************************)
(* String primitives                                                       *)
(***************************************************************************)
\* String.prototype.trim
RECURSIVE trimStart(_)
trimStart(s) ==
    IF s # <<>> /\ Head(s) \in Whitespace THEN trimStart(Tail(s)) ELSE s

RECURSIVE trimEnd(_)
trimEnd(s) ==
    IF s # <<>> /\ s[Len(s)] \in Whitespace
    THEN trimEnd(SubSeq(s, 1, Len(s) - 1)) ELSE s

trim(s) == trimEnd(trimStart(s))

\* text.replace(/\s+/g, " ")
RECURSIVE replaceWhitespaceRuns(_)
replaceWhitespaceRuns(s) ==
    IF s = <<>> THEN <<>>
    ELSE IF Head(s) \in Whitespace
         THEN <<SP>> \o replaceWhitespaceRuns(trimStart(s))
         ELSE <<Head(s)>> \o replaceWhitespaceRuns(Tail(s))

\* str.split("")
splitChars(s) == [i \in 1..Len(s) |-> <<s[i]>>]

\* str.split(/\s+/): cut at every maximal whitespace run
RECURSIVE splitWhitespace(_, _)
splitWhitespace(s, cur) ==
    IF s = <<>> THEN <<cur>>
    ELSE IF Head(s) \in Whitespace
         THEN <<cur>> \o splitWhitespace(trimStart(s), <<>>)
         ELSE splitWhitespace(Tail(s), Append(cur, Head(s)))

\* str.split(" "): cut at every single space
RECURSIVE splitSpace(_, _)
splitSpace(s, cur) ==
    IF s = <<>> THEN <<cur>>
    ELSE IF Head(s) = SP
         THEN <<cur>> \o splitSpace(Tail(s), <<>>)
         ELSE splitSpace(Tail(s), Append(cur, Head(s)))

\* array.join(sep)
RECURSIVE join(_, _)
join(arr, sep) ==
    IF arr = <<>> THEN <<>>
    ELSE IF Len(arr) = 1 THEN arr[1]
    ELSE arr[1] \o sep \o join(Tail(arr), sep)

\* array.slice(from, to) with 0-based, end-exclusive indices inside the array
slice(arr, from, to) == SubSeq(arr, from + 1, to)

(***************************************************************************)
(* Map primitives (insertion ordered)                                      *)
(***************************************************************************)
MapHas(m, k) == \E i \in 1..Len(m) : m[i].key = k
MapGet(m, k) == m[CHOOSE i \in 1..Len(m) : m[i].key = k].val
MapSet(m, k, v) ==
    IF MapHas(m, k)
    THEN [i \in 1..Len(m) |-> IF m[i].key = k THEN [key |-> k, val |-> v] ELSE m[i]]
    ELSE Append(m, [key |-> k, val |-> v])
MapKeys(m) == {m[i].key : i \in 1..Len(m)}

(***************************************************************************)
(* IEEE-754 binary64 arithmetic on the values sampleNextToken computes.    *)
(* A double x with 0 <= x < 2 that is 0 or at least 2^-7 is the integer    *)
(* x * 2^60, held as four base-2^20 limbs, most significant first.         *)
(***************************************************************************)
Limb == 2 ^ 20
MantissaBits == 53

pow2(k) == 2 ^ k

\* index of the leading one bit of n, 0 < n < 2^20
log2(n) == CHOOSE k \in 0..19 : pow2(k) <= n /\ n < 2 * pow2(k)

dblZero == <<0, 0, 0, 0>>

\* exact integer sum of two limb vectors
dblAddExact(x, y) ==
    LET s0 == x[4] + y[4]
        s1 == x[3] + y[3] + (s0 \div Limb)
        s2 == x[2] + y[2] + (s1 \div Limb)
        s3 == x[1] + y[1] + (s2 \div Limb)
    IN  <<s3, s2 % Limb, s1 % Limb, s0 % Limb>>

\* round to nearest, ties to even, at 53 significant bits; sticky tells that
\* the exact value has nonzero bits below the limb vector
dblRound(x, sticky) ==
    LET lead == IF x[1] > 0 THEN 60
                ELSE IF x[2] > 0 THEN 40 + log2(x[2])
                ELSE 0
        d == lead - (MantissaBits - 1)
    IN  IF d <= 0 THEN x
        ELSE LET unit == pow2(d)
                 half == unit \div 2
                 low == x[4] % unit
                 odd == (x[4] \div unit) % 2 = 1
                 up == \/ low > half
                       \/ low = half /\ sticky
                       \/ low = half /\ ~sticky /\ odd
                 kept == <<x[1], x[2], x[3], x[4] - low>>
             IN  IF up THEN dblAddExact(kept, <<0, 0, 0, unit>>) ELSE kept

\* x + y
dblAdd(x, y) == dblRound(dblAddExact(x, y), FALSE)

\* a / b for integers 0 <= a < 2 * b, b < 2048
dblDiv(a, b) ==
    LET q3 == a \div b
        r3 == a % b
        q2 == (r3 * Limb) \div b
        r2 == (r3 * Limb) % b
        q1 == (r2 * Limb) \div b
        r1 == (r2 * Limb) % b
        q0 == (r1 * Limb) \div b
        r0 == (r1 * Limb) % b
    IN  dblRound(<<q3, q2, q1, q0>>, r0 # 0)

\* x < y
dblLess(x, y) ==
    \E i \in 1..4 : x[i] < y[i] /\ \A j \in 1..(i - 1) : x[j] = y[j]

(***************************************************************************)
(* MarkovChain                                                             *)
(***************************************************************************)
Max(a, b) == IF a >= b THEN a ELSE b

\* constructor: this.order = Math.max(1, order)
clampOrder(o) == Max(1, o)

\* tokenize without the trim
tokenizeNoTrim(text, type) ==
    LET cleanedText == replaceWhitespaceRuns(text)
    IN  IF type = "char" THEN splitChars(cleanedText)
        ELSE splitWhitespace(cleanedText, <<>>)

tokenize(text, type) ==
    LET cleanedText == trim(replaceWhitespaceRuns(text))
    IN  IF type = "char" THEN splitChars(cleanedText)
        ELSE splitWhitespace(cleanedText, <<>>)

\* Fisher-Yates; js[i] is the index Math.floor(Math.random() * (i + 1)) drawn
\* at loop index i (0-based), for i = length-1 down to 1
RECURSIVE shuffleFrom(_, _, _)
shuffleFrom(array, js, i) ==
    IF i > 0
    THEN LET j == js[i]
             swapped == [array EXCEPT ![i + 1] = array[j + 1], ![j + 1] = array[i + 1]]
         IN  shuffleFrom(swapped, js, i - 1)
    ELSE array

shuffleArray(array, js) == shuffleFrom(array, js, Len(array) - 1)

ShuffleDraws(n) == {js \in [1..(n - 1) -> 0..(n - 1)] : \A i \in 1..(n - 1) : js[i] <= i}

\* the loop of train stopping one window early
RECURSIVE trainLoopShort(_, _, _, _, _)
trainLoopShort(tt, ss, toks, ord, i) ==
    IF i < Len(toks) - ord - 1
    THEN LET currentState == join(slice(toks, i, i + ord), <<SP>>)
             nextToken == toks[i + ord + 1]
             ss1 == IF i = 0 THEN Append(ss, currentState) ELSE ss
             tt1 == IF ~MapHas(tt, currentState) THEN MapSet(tt, currentState, <<>>) ELSE tt
             stateTransitions == MapGet(tt1, currentState)
             n == IF MapHas(stateTransitions, nextToken)
                  THEN MapGet(stateTransitions, nextToken) ELSE 0
             tt2 == MapSet(tt1, currentState, MapSet(stateTransitions, nextToken, n + 1))
         IN  trainLoopShort(tt2, ss1, toks, ord, i + 1)
    ELSE [transitionTable |-> tt, startStates |-> ss]

\* the loop of train storing the count without the increment
RECURSIVE trainLoopNoIncrement(_, _, _, _, _)
trainLoopNoIncrement(tt, ss, toks, ord, i) ==
    IF i <= Len(toks) - ord - 1
    THEN LET currentState == join(slice(toks, i, i + ord), <<SP>>)
             nextToken == toks[i + ord + 1]
             ss1 == IF i = 0 THEN Append(ss, currentState) ELSE ss
             tt1 == IF ~MapHas(tt, currentState) THEN MapSet(tt, currentState, <<>>) ELSE tt
             stateTransitions == MapGet(tt1, currentState)
             n == IF MapHas(stateTransitions, nextToken)
                  THEN MapGet(stateTransitions, nextToken) ELSE 0
             tt2 == MapSet(tt1, currentState, MapSet(stateTransitions, nextToken, n))
         IN  trainLoopNoIncrement(tt2, ss1, toks, ord, i + 1)
    ELSE [transitionTable |-> tt, startStates |-> ss]

\* the loop of train, lines 56-76, from index i on
RECURSIVE trainLoop(_, _, _, _, _)
trainLoop(tt, ss, toks, ord, i) ==
    IF i <= Len(toks) - ord - 1
    THEN LET currentState == join(slice(toks, i, i + ord), <<SP>>)
             nextToken == toks[i + ord + 1]
             ss1 == IF i = 0 THEN Append(ss, currentState) ELSE ss
             tt1 == IF ~MapHas(tt, currentState) THEN MapSet(tt, currentState, <<>>) ELSE tt
             stateTransitions == MapGet(tt1, currentState)
             n == IF MapHas(stateTransitions, nextToken)
                  THEN MapGet(stateTransitions, nextToken) ELSE 0
             tt2 == MapSet(tt1, currentState, MapSet(stateTransitions, nextToken, n + 1))
         IN  trainLoop(tt2, ss1, toks, ord, i + 1)
    ELSE [transitionTable |-> tt, startStates |-> ss]

ErrEmptyText == "training text must not be empty"
ErrTooShort == "text too short for the order"
ErrNotTrained == "model not trained"
InvalidInput == {ErrEmptyText, ErrTooShort}

\* train clearing the model before it validates the corpus
trainClearsFirst(tt, ss, ord, text, segmentType, js) ==
    IF text = <<>> \/ Len(trim(text)) = 0
    THEN [transitionTable |-> <<>>, startStates |-> <<>>, error |-> ErrEmptyText,
          tokens |-> <<>>]
    ELSE LET toks == tokenize(text, segmentType)
         IN  IF Len(toks) <= ord
             THEN [transitionTable |-> <<>>, startStates |-> <<>>, error |-> ErrTooShort,
                   tokens |-> <<>>]
             ELSE LET built == trainLoop(<<>>, <<>>, toks, ord, 0)
                  IN  [transitionTable |-> built.transitionTable,
                       startStates |-> shuffleArray(built.startStates, js),
                       error |-> "", tokens |-> toks]

\* train without transitionTable.clear()
trainMerges(tt, ss, ord, text, segmentType, js) ==
    IF text = <<>> \/ Len(trim(text)) = 0
    THEN [transitionTable |-> tt, startStates |-> ss, error |-> ErrEmptyText, tokens |-> <<>>]
    ELSE LET toks == tokenize(text, segmentType)
         IN  IF Len(toks) <= ord
             THEN [transitionTable |-> tt, startStates |-> ss, error |-> ErrTooShort,
                   tokens |-> <<>>]
             ELSE LET built == trainLoop(tt, <<>>, toks, ord, 0)
                  IN  [transitionTable |-> built.transitionTable,
                       startStates |-> shuffleArray(built.startStates, js),
                       error |-> "", tokens |-> toks]

\* train accepting a corpus of exactly `order` tokens
trainStrictLength(tt, ss, ord, text, segmentType, js) ==
    IF text = <<>> \/ Len(trim(text)) = 0
    THEN [transitionTable |-> tt, startStates |-> ss, error |-> ErrEmptyText, tokens |-> <<>>]
    ELSE LET toks == tokenize(text, segmentType)
         IN  IF Len(toks) < ord
             THEN [transitionTable |-> tt, startStates |-> ss, error |-> ErrTooShort,
                   tokens |-> <<>>]
             ELSE LET built == trainLoop(<<>>, <<>>, toks, ord, 0)
                  IN  [transitionTable |-> built.transitionTable,
                       startStates |-> shuffleArray(built.startStates, js),
                       error |-> "", tokens |-> toks]

\* train: the model after the call, the error thrown ("" when none) and the
\* local tokens
train(tt, ss, ord, text, segmentType, js) ==
    IF text = <<>> \/ Len(trim(text)) = 0
    THEN [transitionTable |-> tt, startStates |-> ss, error |-> ErrEmptyText, tokens |-> <<>>]
    ELSE LET toks == tokenize(text, segmentType)
         IN  IF Len(toks) <= ord
             THEN [transitionTable |-> tt, startStates |-> ss, error |-> ErrTooShort,
                   tokens |-> <<>>]
             ELSE LET built == trainLoop(<<>>, <<>>, toks, ord, 0)
                  IN  [transitionTable |-> built.transitionTable,
                       startStates |-> shuffleArray(built.startStates, js),
                       error |-> "", tokens |-> toks]

\* a temperature num/den; den = 0 is Infinity
T(num, den) == [num |-> num, den |-> den]
Temperatures == {T(0, 1), T(1, 2), T(1, 1), T(1, 0)}

intPow(b, e) == b ^ e

\* Math.pow(count, 1 / temperature) for a temperature 1/k or Infinity: the
\* quotient and the power are exact small integers
powInverse(count, temperature) == intPow(count, temperature.den \div temperature.num)

RECURSIVE maxValue(_)
maxValue(m) ==
    IF Len(m) = 1 THEN m[1].val ELSE Max(m[1].val, maxValue(Tail(m)))

RECURSIVE sumSeq(_)
sumSeq(q) == IF q = <<>> THEN 0 ELSE Head(q) + sumSeq(Tail(q))

\* the sampling walk of lines 224-229 from entry i on; 0 when no entry is hit
RECURSIVE sampleWalk(_, _, _, _)
sampleWalk(probabilities, random, cumulativeProbability, i) ==
    IF i > Len(probabilities) THEN 0
    ELSE LET c == dblAdd(cumulativeProbability, probabilities[i])
         IN  IF dblLess(random, c) THEN i
             ELSE sampleWalk(probabilities, random, c, i + 1)

sampleNextToken(transitions, temperature, random) ==
    LET adjustedCount(count) ==
            IF temperature.num = 0
            THEN IF count = maxValue(transitions) THEN 1 ELSE 0
            ELSE powInverse(count, temperature)
        weights == [i \in 1..Len(transitions) |-> adjustedCount(transitions[i].val)]
        total == sumSeq(weights)
        probabilities == [i \in 1..Len(transitions) |-> dblDiv(weights[i], total)]
        hit == sampleWalk(probabilities, random, dblZero, 1)
    IN  IF hit # 0 THEN transitions[hit].key
        ELSE transitions[Len(transitions)].key

\* the loop of generate, lines 108-131, from iteration i on; randoms[i + 1]
\* is the Math.random() value sampleNextToken draws in iteration i
RECURSIVE generateLoop(_, _, _, _, _, _, _, _)

\* lines 123-130: res1 is result after the push of line 121
generateAppend(tt, ord, res1, i, length, temperature, randoms) ==
    LET newStateTokens == slice(res1, Len(res1) - ord, Len(res1))
        newState == join(newStateTokens, <<SP>>)
    IN  IF ~MapHas(tt, newState) THEN res1
        ELSE generateLoop(tt, ord, res1, newState, i + 1, length, temperature, randoms)

generateLoop(tt, ord, res, currentState, i, length, temperature, randoms) ==
    IF i < length
    THEN IF ~MapHas(tt, currentState) \/ Len(MapGet(tt, currentState)) = 0
         THEN res
         ELSE generateAppend(tt, ord,
                  Append(res, sampleNextToken(MapGet(tt, currentState), temperature,
                                              randoms[i + 1])),
                  i, length, temperature, randoms)
    ELSE res

\* generate: the error thrown ("" when none), the local result array and the
\* returned text; pick is Math.floor(Math.random() * startStates.length)
generate(tt, ss, ord, length, segmentType, temperature, pick, randoms) ==
    IF Len(tt) = 0 \/ Len(ss) = 0
    THEN [error |-> ErrNotTrained, result |-> <<>>, text |-> <<>>]
    ELSE LET currentState == ss[pick + 1]
             res == generateLoop(tt, ord, splitSpace(currentState, <<>>), currentState, 0,
                                 length, temperature, randoms)
         IN  [error |-> "", result |-> res,
              text |-> IF segmentType = "char" THEN join(res, <<>>) ELSE join(res, <<SP>>)]

RECURSIVE gcd(_, _)
gcd(a, b) == IF b = 0 THEN a ELSE gcd(b, a % b)

\* the quotient a / b of two small integers, as a fraction in lowest terms
quotient(a, b) == [num |-> a \div gcd(a, b), den |-> b \div gcd(a, b)]

\* getStats adding up the counts instead of the mapping sizes
getStatsCounts(tt) ==
    LET totalBranches ==
            sumSeq([i \in 1..Len(tt) |-> sumSeq([k \in 1..Len(tt[i].val) |-> tt[i].val[k].val])])
        stateCount == Len(tt)
    IN  [stateCount |-> stateCount,
         averageBranchingFactor |->
             IF stateCount > 0 THEN quotient(totalBranches, stateCount) ELSE quotient(0, 1)]

RECURSIVE totalBranchesFrom(_, _)
totalBranchesFrom(tt, i) ==
    IF i > Len(tt) THEN 0 ELSE Len(tt[i].val) + totalBranchesFrom(tt, i + 1)

getStats(tt) ==
    LET totalBranches == totalBranchesFrom(tt, 1)
        stateCount == Len(tt)
    IN  [stateCount |-> stateCount,
         averageBranchingFactor |->
             IF stateCount > 0 THEN quotient(totalBranches, stateCount) ELSE quotient(0, 1)]

\* clear leaving the model as it is
clearKeeps(tt, ss) == [transitionTable |-> tt, startStates |-> ss]

\* clear emptying the table only
clearKeepsStartStates(tt, ss) == [transitionTable |-> <<>>, startStates |-> ss]

clear(tt, ss) == [transitionTable |-> <<>>, startStates |-> <<>>]

\* Math.random() values: 0, 1/2, 1 - 2^-52 and 1 - 2^-53, the largest double
\* below 1
R0 == dblZero
RHalf == <<0, Limb \div 2, 0, 0>>
RTop52 == <<0, Limb - 1, Limb - 1, Limb - 256>>
RTop == <<0, Limb - 1, Limb - 1, Limb - 128>>
Randoms == {R0, RHalf, RTop52, RTop}
\* the draws that pick the first and the last token of a mapping
EndRandoms == {R0, RTop}

\* the page before a text is submitted: MarkovGenerator is not rendered
null == [kind |-> "null"]
Idle == [pc |-> "idle"]
DefaultOrder == 2
HostUnmounted ==
    /\ home = [inputText |-> <<>>, generatedText |-> <<>>, error |-> ""]
    /\ generator = [markovChain |-> null, order |-> DefaultOrder, segmentType |-> "char",
                    modelStats |-> null, isTraining |-> FALSE, isGenerating |-> FALSE]
    /\ flow = Idle

NoInput == [kind |-> "none"]
NoRet == [kind |-> "none"]
Thrown(e) == [kind |-> "error", error |-> e]

Init ==
    /\ order \in {clampOrder(o) : o \in 0..MaxOrder}
    /\ transitionTable = <<>>
    /\ startStates = <<>>
    /\ call = [op |-> "new"]
    /\ ret = NoRet
    /\ tokens = <<>>
    /\ result = <<>>
    /\ input = NoInput
    /\ HostUnmounted

Train(text, segmentType) ==
    \E js \in ShuffleDraws(1) :
        LET r == train(transitionTable, startStates, order, text, segmentType, js)
        IN  /\ transitionTable' = r.transitionTable
            /\ startStates' = r.startStates
            /\ call' = [op |-> "train"]
            /\ ret' = IF r.error = "" THEN [kind |-> "ok"] ELSE Thrown(r.error)
            /\ tokens' = IF r.error = "" THEN r.tokens ELSE tokens
            /\ result' = <<>>
            /\ UNCHANGED <<order, input, hostVars>>

Generate(length, segmentType, temperature) ==
    \E pick \in 0..Max(0, Len(startStates) - 1), randoms \in [1..length -> EndRandoms] :
        LET r == generate(transitionTable, startStates, order, length, segmentType,
                          temperature, pick, randoms)
        IN  /\ call' = [op |-> "generate", length |-> length, segmentType |-> segmentType]
            /\ ret' = IF r.error = "" THEN [kind |-> "ok", value |-> r.text]
                      ELSE Thrown(r.error)
            /\ result' = r.result
            /\ UNCHANGED <<order, transitionTable, startStates, tokens, input, hostVars>>

GetStats ==
    /\ call' = [op |-> "getStats"]
    /\ ret' = [kind |-> "ok", value |-> getStats(transitionTable)]
    /\ result' = <<>>
    /\ UNCHANGED <<order, transitionTable, startStates, tokens, input, hostVars>>

Clear ==
    LET r == clear(transitionTable, startStates)
    IN  /\ transitionTable' = r.transitionTable
        /\ startStates' = r.startStates
        /\ call' = [op |-> "clear"]
        /\ ret' = [kind |-> "ok"]
        /\ tokens' = <<>>
        /\ result' = <<>>
        /\ UNCHANGED <<order, input, hostVars>>

Next ==
    \/ \E text \in Corpora, segmentType \in Modes : Train(text, segmentType)
    \/ \E length \in 0..MaxGenLen, segmentType \in Modes, temperature \in Temperatures :
           Generate(length, segmentType, temperature)
    \/ GetStats
    \/ Clear

Spec == Init /\ [][Next]_vars

(***************************************************************************)
(* train and tokenize as functions of the corpus: a model, fresh or        *)
(* already trained, receives one corpus                                    *)
(***************************************************************************)
MaxTextLen == 4
Texts == StringsUpTo(Alphabet \cup {TAB}, MaxTextLen)
PriorCorpus == <<"a", "b", "a">>

InitTrain ==
    /\ order \in {clampOrder(o) : o \in 0..MaxOrder}
    /\ \E prior \in {<<>>, PriorCorpus} :
           LET r == train(<<>>, <<>>, order, prior, "char", <<>>)
           IN  /\ transitionTable = r.transitionTable
               /\ startStates = r.startStates
               /\ tokens = r.tokens
    /\ call = [op |-> "new"]
    /\ ret = NoRet
    /\ result = <<>>
    /\ input \in [kind : {"train"}, text : Texts, segmentType : Modes]
    /\ HostUnmounted

TrainInput ==
    /\ input.kind = "train"
    /\ Train(input.text, input.segmentType)

NextTrain ==
    \/ TrainInput
    \/ GetStats

SpecTrain == InitTrain /\ [][NextTrain]_vars

(***************************************************************************)
(* sampleNextToken as a function of the transition mapping, the            *)
(* temperature and the random draw                                         *)
(***************************************************************************)
MaxTokens == 7     \* most distinct tokens after one state
MaxCount == 2      \* largest count in a mapping

\* the i-th token: a word of i letters
tokenOf(i) == [j \in 1..i |-> "a"]

Mappings ==
    UNION {{[i \in 1..n |-> [key |-> tokenOf(i), val |-> counts[i]]] :
               counts \in [1..n -> 1..MaxCount]} : n \in 1..MaxTokens}

InitSample ==
    /\ order = 1
    /\ transitionTable = <<>>
    /\ startStates = <<>>
    /\ call = [op |-> "new"]
    /\ ret = NoRet
    /\ tokens = <<>>
    /\ result = <<>>
    /\ input \in [kind : {"sample"}, transitions : Mappings, temperature : Temperatures,
                   random : Randoms]
    /\ HostUnmounted

Sample ==
    /\ input.kind = "sample"
    /\ call' = [op |-> "sampleNextToken"]
    /\ ret' = [kind |-> "ok",
               value |-> sampleNextToken(input.transitions, input.temperature, input.random)]
    /\ UNCHANGED <<order, transitionTable, startStates, tokens, result, input, hostVars>>

NextSample == Sample

SpecSample == InitSample /\ [][NextSample]_vars
(***************************************************************************)
(* The page: Home holds the submitted text and what is shown to the user,  *)
(* MarkovGenerator holds the model and its parameters.  trainModel and     *)
(* generateText run in steps: the click, then one timer callback per       *)
(* engine call.  A MarkovChain object is the value of its three fields;    *)
(* trainedWith records which train call built its table.                   *)
(***************************************************************************)
HostTexts == {<<"a", "b">>, <<"a", SP, "b">>, <<"a", "b", "a">>}
HostOrders == 1..MaxOrder
\* outputLength and temperature, which only generate reads, are drawn when
\* generate runs
HostLengths == {MaxGenLen}
HostTemperatures == {T(1, 2), T(1, 1)}

MsgNoText == "no text entered or uploaded"
MsgNoModel == "model not initialised"

NewMarkovChain(ord) ==
    [kind |-> "MarkovChain", order |-> clampOrder(ord), transitionTable |-> <<>>,
     startStates |-> <<>>, trainedWith |-> <<>>]

\* the effect of MarkovGenerator, run when inputText, order or onError changed
effect(g, text) ==
    [g EXCEPT !.modelStats = null,
              !.markovChain = IF text # <<>> /\ Len(trim(text)) > 0
                              THEN NewMarkovChain(g.order) ELSE @]

handleTextSubmit(h, text) == [h EXCEPT !.inputText = text, !.error = ""]
handleGenerationComplete(h, text) == [h EXCEPT !.generatedText = text]
handleError(h, message) == [h EXCEPT !.error = message]

Running == flow.pc \in {"train", "generate"}

\* the state after the handlers' setters: when a value of Home changed, Home
\* renders again, onError is a new function and the effect replaces the
\* model; a call in flight keeps the model its closure captured
AfterRender(h1, g1, f1) ==
    IF h1 = home THEN [generator |-> g1, flow |-> f1]
    ELSE [generator |-> effect(g1, h1.inputText),
          flow |-> IF f1.pc \in {"train", "generate"} /\ f1.shared
                   THEN [f1 EXCEPT !.shared = FALSE, !.chain = g1.markovChain]
                   ELSE f1]

Started(pc, origin, errors) ==
    [pc |-> pc, origin |-> origin, chain |-> null, shared |-> TRUE,
     inputText |-> home.inputText, segmentType |-> generator.segmentType,
     trainFailed |-> FALSE, generateCalled |-> FALSE, generatedOn |-> <<>>,
     errors |-> errors]

\* what a finished call leaves to look at
Finished(f) ==
    [pc |-> "done", origin |-> f.origin, segmentType |-> f.segmentType,
     trainFailed |-> f.trainFailed, generateCalled |-> f.generateCalled,
     generatedOn |-> f.generatedOn, errors |-> f.errors]

\* the model the call in flight works on
TheChain == IF flow.shared THEN generator.markovChain ELSE flow.chain

Mounted == home.inputText # <<>>
ControlsEnabled == Mounted /\ ~generator.isTraining /\ ~generator.isGenerating
NoText == home.inputText = <<>> \/ Len(trim(home.inputText)) = 0

EngineUnchanged ==
    UNCHANGED <<order, transitionTable, startStates, call, ret, tokens, result, input>>

InitHost ==
    /\ order = DefaultOrder
    /\ transitionTable = <<>>
    /\ startStates = <<>>
    /\ call = [op |-> "new"]
    /\ ret = NoRet
    /\ tokens = <<>>
    /\ result = <<>>
    /\ input = NoInput
    /\ HostUnmounted

\* TextInput.handleSubmit -> Home.handleTextSubmit
SubmitText(text) ==
    LET h1 == handleTextSubmit(home, text)
        a == AfterRender(h1, generator, IF Running THEN flow ELSE Idle)
    IN  /\ home' = h1
        /\ generator' = a.generator
        /\ flow' = a.flow
        /\ EngineUnchanged

\* the order slider
ChangeOrder(o) ==
    /\ ControlsEnabled
    /\ generator' = IF o = generator.order THEN generator
                    ELSE effect([generator EXCEPT !.order = o], home.inputText)
    /\ flow' = Idle
    /\ UNCHANGED home
    /\ EngineUnchanged

\* the segmentation radio buttons
ChangeSegmentType(t) ==
    /\ ControlsEnabled
    /\ generator' = [generator EXCEPT !.segmentType = t]
    /\ flow' = Idle
    /\ UNCHANGED home
    /\ EngineUnchanged

\* the train button: trainModel up to its await
ClickTrain ==
    /\ ControlsEnabled
    /\ IF generator.markovChain = null \/ NoText
       THEN LET h1 == handleError(home, MsgNoText)
                a == AfterRender(h1, generator,
                                 Finished(Started("done", "trainModel", <<MsgNoText>>)))
            IN  home' = h1 /\ generator' = a.generator /\ flow' = a.flow
       ELSE /\ generator' = [generator EXCEPT !.isTraining = TRUE]
            /\ flow' = Started("train", "trainModel", <<>>)
            /\ UNCHANGED home
    /\ EngineUnchanged

\* the generate button: generateText up to its first await
ClickGenerate ==
    /\ ControlsEnabled
    /\ IF generator.markovChain = null
       THEN LET h1 == handleError(home, MsgNoModel)
                a == AfterRender(h1, generator,
                                 Finished(Started("done", "generateText", <<MsgNoModel>>)))
            IN  home' = h1 /\ generator' = a.generator /\ flow' = a.flow
       ELSE LET stats == getStats(generator.markovChain.transitionTable)
            IN  IF stats.stateCount = 0
                THEN IF NoText
                     THEN LET h1 == handleError(home, MsgNoText)
                              a == AfterRender(h1,
                                       [generator EXCEPT !.isGenerating = TRUE],
                                       Started("generate", "generateText", <<MsgNoText>>))
                          IN  home' = h1 /\ generator' = a.generator /\ flow' = a.flow
                     ELSE /\ generator' = [generator EXCEPT !.isGenerating = TRUE,
                                                            !.isTraining = TRUE]
                          /\ flow' = Started("train", "generateText", <<>>)
                          /\ UNCHANGED home
                ELSE /\ generator' = [generator EXCEPT !.isGenerating = TRUE]
                     /\ flow' = Started("generate", "generateText", <<>>)
                     /\ UNCHANGED home
    /\ EngineUnchanged

\* the timer callback of trainModel, then its finally
TrainRun ==
    /\ flow.pc = "train"
    /\ \E js \in ShuffleDraws(1) :
        LET c == TheChain
            r == train(c.transitionTable, c.startStates, c.order, flow.inputText,
                       flow.segmentType, js)
            ok == r.error = ""
            c1 == IF ok
                  THEN [c EXCEPT !.transitionTable = r.transitionTable,
                                 !.startStates = r.startStates,
                                 !.trainedWith = <<[segmentType |-> flow.segmentType,
                                                    inputText |-> flow.inputText,
                                                    order |-> c.order]>>]
                  ELSE c
            h1 == IF ok THEN home ELSE handleError(home, r.error)
            g1 == [generator EXCEPT
                      !.markovChain = IF flow.shared THEN c1 ELSE @,
                      !.modelStats = IF ok THEN getStats(c1.transitionTable) ELSE @,
                      !.isTraining = FALSE]
            f1 == [flow EXCEPT !.chain = IF flow.shared THEN null ELSE c1,
                               !.trainFailed = ~ok,
                               !.errors = IF ok THEN @ ELSE Append(@, r.error)]
            f2 == IF flow.origin = "generateText" THEN [f1 EXCEPT !.pc = "generate"]
                  ELSE Finished(f1)
            a == AfterRender(h1, g1, f2)
        IN  home' = h1 /\ generator' = a.generator /\ flow' = a.flow
    /\ EngineUnchanged

\* the timer callback of generateText, then its finally
GenerateRun ==
    /\ flow.pc = "generate"
    /\ \E length \in HostLengths, temperature \in HostTemperatures,
          pick \in 0..Max(0, Len(TheChain.startStates) - 1) :
        \E randoms \in [1..length -> EndRandoms] :
            LET c == TheChain
                r == generate(c.transitionTable, c.startStates, c.order, length,
                              flow.segmentType, temperature, pick, randoms)
                h1 == IF r.error = "" THEN handleGenerationComplete(home, r.text)
                      ELSE handleError(home, r.error)
                g1 == [generator EXCEPT !.isGenerating = FALSE]
                f1 == Finished([flow EXCEPT
                                   !.generateCalled = TRUE,
                                   !.generatedOn = c.trainedWith,
                                   !.errors = IF r.error = "" THEN @
                                              ELSE Append(@, r.error)])
                a == AfterRender(h1, g1, f1)
            IN  home' = h1 /\ generator' = a.generator /\ flow' = a.flow
    /\ EngineUnchanged

NextHost ==
    \/ \E text \in HostTexts : SubmitText(text)
    \/ \E o \in HostOrders : ChangeOrder(o)
    \/ \E t \in Modes : ChangeSegmentType(t)
    \/ ClickTrain
    \/ ClickGenerate
    \/ TrainRun
    \/ GenerateRun

SpecHost == InitHost /\ [][NextHost]_vars

(***************************************************************************)
(* Vocabulary of the properties                                            *)
(***************************************************************************)
TrainedOk == call.op = "train" /\ ret.kind = "ok"
TrainFailed == call.op = "train" /\ ret.kind = "error"
GeneratedOk == call.op = "generate" /\ ret.kind = "ok"

\* start indices of the windows train walks over, 0-based
Windows == 0..(Len(tokens) - order - 1)
WindowAt(i) == join(slice(tokens, i, i + order), <<SP>>)
Occurrences(s, t) ==
    Cardinality({i \in Windows : WindowAt(i) = s /\ tokens[i + order + 1] = t})

CountUnder(s, t) ==
    IF MapHas(transitionTable, s) /\ MapHas(MapGet(transitionTable, s), t)
    THEN MapGet(MapGet(transitionTable, s), t) ELSE 0

NoDuplicateKeys(m) == \A i, j \in 1..Len(m) : m[i].key = m[j].key => i = j

\* C1: after a successful train the table holds, for every state s and token
\* t, exactly the number of corpus windows equal to s that are followed by t,
\* with no entry for a pair that never occurs; the counts under s sum to the
\* number of windows equal to s.
C1_CountsAreWindowCounts ==
    TrainedOk =>
        /\ NoDuplicateKeys(transitionTable)
        /\ \A i \in Windows :
               CountUnder(WindowAt(i), tokens[i + order + 1])
                   = Occurrences(WindowAt(i), tokens[i + order + 1])
        /\ \A e \in 1..Len(transitionTable) :
               LET s == transitionTable[e].key
                   m == transitionTable[e].val
               IN  /\ NoDuplicateKeys(m)
                   /\ \A k \in 1..Len(m) :
                          m[k].val > 0 /\ m[k].val = Occurrences(s, m[k].key)
                   /\ sumSeq([k \in 1..Len(m) |-> m[k].val])
                          = Cardinality({i \in Windows : WindowAt(i) = s})

\* a window that occurs twice before the same token
C1_Witness ==
    /\ TrainedOk
    /\ \E e \in 1..Len(transitionTable) :
           \E k \in 1..Len(transitionTable[e].val) : transitionTable[e].val[k].val = 2

\* C2: the token sequence generate builds contains only observed
\* transitions: every token at a position past the first `order` ones has a
\* positive count under the state formed by the `order` tokens before it.
C2_OnlyObservedTransitions ==
    GeneratedOk =>
        \A k \in (order + 1)..Len(result) :
            CountUnder(join(SubSeq(result, k - order, k - 1), <<SP>>), result[k]) > 0

\* C3: a train call that fails leaves the table and the start states as they
\* were, whatever the model held.
C3_FailedTrainKeepsModel ==
    [][(call'.op = "train" /\ ret'.kind = "error")
          => /\ ret'.error \in InvalidInput
             /\ transitionTable' = transitionTable
             /\ startStates' = startStates]_vars

\* a failed train on a trained model
C3_Witness == TrainFailed /\ transitionTable # <<>> /\ startStates # <<>>

\* C4: after a successful train the table and the start states are those a
\* fresh model of the same order builds from the same corpus: nothing of an
\* earlier training is left and no count is doubled.
C4_TrainReplaces ==
    TrainedOk =>
        LET fresh == trainLoop(<<>>, <<>>, tokens, order, 0)
        IN  /\ transitionTable = fresh.transitionTable
            /\ startStates = fresh.startStates
            /\ Len(startStates) = 1
            /\ C1_CountsAreWindowCounts

\* C5: generate fails with the not-trained error, returning no text, exactly
\* when no train has succeeded since construction or the last clear; so it
\* fails right after construction and right after clear, and never right
\* after a successful train.
C5_NotTrained ==
    /\ [](call.op = "generate" =>
             /\ (ret = Thrown(ErrNotTrained)) <=> (tokens = <<>>)
             /\ ret.kind = "error" => result = <<>>)
    /\ [][call'.op = "generate" =>
             /\ call.op \in {"new", "clear"} => ret' = Thrown(ErrNotTrained)
             /\ TrainedOk => ret'.kind = "ok"]_vars

\* generate refused after a clear that followed a training
C5_Witness ==
    call.op = "generate" /\ ret = Thrown(ErrNotTrained) /\ transitionTable = <<>>

\* a second successful train
C4_Witness == TrainedOk /\ Len(transitionTable) = 2

\* the corpus read without the code: its maximal runs of non-whitespace
IsBlank(text) == \A i \in 1..Len(text) : text[i] \in Whitespace
WordStarts(text) ==
    {i \in 1..Len(text) : text[i] \notin Whitespace /\ (i = 1 \/ text[i - 1] \in Whitespace)}
WordEnd(text, i) ==
    CHOOSE j \in i..Len(text) :
        /\ \A k \in i..j : text[k] \notin Whitespace
        /\ j = Len(text) \/ text[j + 1] \in Whitespace
Words(text) ==
    [k \in 1..Cardinality(WordStarts(text)) |->
        LET i == CHOOSE x \in WordStarts(text) :
                     Cardinality({y \in WordStarts(text) : y < x}) = k - 1
        IN  SubSeq(text, i, WordEnd(text, i))]
Letters_(text) == Cardinality({i \in 1..Len(text) : text[i] \notin Whitespace})
TokenCount(text, mode) ==
    IF mode = "word" THEN Len(Words(text))
    ELSE Letters_(text) + Len(Words(text)) - 1

\* c is text with every whitespace run collapsed to one space, and trimmed
IsCollapsedFormOf(c, text) ==
    /\ \A i \in 1..Len(c) : c[i] \in Whitespace => c[i] = SP
    /\ c # <<>> => c[1] # SP /\ c[Len(c)] # SP
    /\ \A i \in 1..(Len(c) - 1) : ~(c[i] = SP /\ c[i + 1] = SP)
    /\ Words(c) = Words(text)

\* C6: train fails with an invalid-input error exactly when the corpus is
\* empty or all whitespace or has at most `order` tokens; otherwise it
\* succeeds and getStats then reports at least one state.
C6_TrainFailsExactlyOnShortInput ==
    /\ call.op = "train" =>
          /\ (ret.kind = "error")
                 <=> (IsBlank(input.text) \/ TokenCount(input.text, input.segmentType) <= order)
          /\ ret.kind = "error" => ret.error \in InvalidInput
          /\ ret.kind = "ok" => getStats(transitionTable).stateCount >= 1
    /\ (call.op = "getStats" /\ tokens # <<>>) => ret.value.stateCount >= 1

\* a corpus of exactly `order` tokens is refused
C6_Witness ==
    /\ call.op = "train"
    /\ ret = Thrown(ErrTooShort)
    /\ TokenCount(input.text, input.segmentType) = order

\* C7: at temperature 0 sampleNextToken returns, for every random draw, a
\* token whose count is the maximum of the mapping.
C7_ZeroTemperaturePicksMaximum ==
    (call.op = "sampleNextToken" /\ input.temperature.num = 0) =>
        \A i \in 1..Len(input.transitions) :
            MapGet(input.transitions, ret.value) >= input.transitions[i].val

RECURSIVE BranchesOver(_)
BranchesOver(S) ==
    IF S = {} THEN 0
    ELSE LET s == CHOOSE x \in S : TRUE
         IN  Cardinality(MapKeys(MapGet(transitionTable, s))) + BranchesOver(S \ {s})

\* C8: getStats returns the number of keys of the table and the mean number
\* of distinct outgoing tokens per state, both 0 on an untrained model, and
\* changes neither the table nor the start states.
C8_StatsArePureRead ==
    /\ [](call.op = "getStats" =>
             LET keys == MapKeys(transitionTable)
                 avg == ret.value.averageBranchingFactor
             IN  /\ ret.value.stateCount = Cardinality(keys)
                 /\ avg.den > 0
                 /\ keys # {} => avg.num * Cardinality(keys) = BranchesOver(keys) * avg.den
                 /\ keys = {} => avg.num = 0
                 /\ tokens = <<>> => ret.value.stateCount = 0 /\ avg.num = 0)
    /\ [][call'.op = "getStats" =>
             transitionTable' = transitionTable /\ startStates' = startStates]_vars

\* statistics of a table whose one state has two outgoing tokens
C8_Witness ==
    /\ call.op = "getStats"
    /\ ret.value.stateCount = 1
    /\ ret.value.averageBranchingFactor = [num |-> 2, den |-> 1]

\* C9: in word mode the tokens of a corpus that is not blank are non-empty
\* and free of whitespace, and joined by single spaces they give the corpus
\* with every whitespace run collapsed to one space, and trimmed.
C9_WordTokensRoundTrip ==
    (call.op = "train" /\ input.segmentType = "word" /\ ~IsBlank(input.text)) =>
        LET toks == tokenize(input.text, "word")
        IN  /\ \A k \in 1..Len(toks) :
                   toks[k] # <<>> /\ \A i \in 1..Len(toks[k]) : toks[k][i] \notin Whitespace
            /\ IsCollapsedFormOf(join(toks, <<SP>>), input.text)
            /\ ret.kind = "ok" => tokens = toks

\* two words separated by a run of a space and a tab
C9_Witness ==
    /\ call.op = "train" /\ input.segmentType = "word"
    /\ Len(Words(input.text)) = 2
    /\ \E i \in 1..3 : input.text[i] = SP /\ input.text[i + 1] = TAB

IsPrefix(p, q) == Len(p) <= Len(q) /\ SubSeq(q, 1, Len(p)) = p

\* C10: generate seeds its token sequence with the `order` tokens of the
\* start state, so the text begins with the first `order` tokens of the
\* corpus as the mode renders them, and generate(0, "char", t) returns the
\* first `order` characters of the collapsed corpus.
C10_SeededWithFirstTokens ==
    GeneratedOk =>
        LET seed == SubSeq(tokens, 1, order)
            rendered == IF call.segmentType = "char" THEN join(seed, <<>>)
                        ELSE join(seed, <<SP>>)
        IN  /\ Len(result) >= order
            /\ SubSeq(result, 1, order) = seed
            /\ IsPrefix(rendered, ret.value)
            /\ (call.length = 0 /\ call.segmentType = "char") => ret.value = rendered

\* the tokens generate has appended so far: its sequence past the pieces
\* the start state was split into
SeedPieces == Len(splitSpace(startStates[1], <<>>))
Appended == SubSeq(result, SeedPieces + 1, Len(result))
\* the tokens produced so far: the first `order` corpus tokens, then the
\* sampled ones
Produced == SubSeq(tokens, 1, order) \o Appended
\* the key generate computes after its k-th append, and the training-time
\* key of the last `order` tokens produced by then
LookedUpKey(k) == join(SubSeq(result, SeedPieces + k - order + 1, SeedPieces + k), <<SP>>)
TrueKey(k) == join(SubSeq(Produced, k + 1, k + order), <<SP>>)

\* C11: every state key generate looks up is the training-time key (tokens
\* joined by one space) of the last `order` tokens produced so far, the
\* start state included, in both modes; so generate never stops short on a
\* state whose true token window is a key of the table.
C11_LookupsUseTrainingKeys ==
    GeneratedOk =>
        /\ startStates[1] = join(SubSeq(tokens, 1, order), <<SP>>)
        /\ \A k \in 1..Len(Appended) : LookedUpKey(k) = TrueKey(k)
        /\ (Len(Appended) \in 1..(call.length - 1))
               => ~MapHas(transitionTable, TrueKey(Len(Appended)))

\* C12: in every state the model reaches, whatever calls led to it, every
\* count of the table is a positive integer and every key of the table has
\* at least one outgoing token.
C12_CountsPositiveKeysBranch ==
    \A e \in 1..Len(transitionTable) :
        LET m == transitionTable[e].val
        IN  /\ Len(m) >= 1
            /\ \A k \in 1..Len(m) : m[k].val \in Nat /\ m[k].val >= 1

\* a table of two states kept through a failed train
C12_Witness ==
    /\ TrainFailed
    /\ Len(transitionTable) = 2
    /\ \A e \in 1..2 : Len(transitionTable[e].val) = 1

StateAfter(k) == join(SubSeq(result, k - order + 1, k), <<SP>>)

\* C14: generate on a trained model ends with at most `length` tokens
\* appended to the `order` seed tokens; it appends fewer only when the state
\* reached after the last append is no key of the table, that token being
\* kept and no error raised; when every state reached is a key it appends
\* exactly `length` tokens.
C14_AppendsAtMostLength ==
    (call.op = "generate" /\ tokens # <<>>) =>
        /\ ret.kind = "ok"
        /\ Len(result) >= order
        /\ Len(result) <= order + call.length
        /\ Len(result) < order + call.length =>
               /\ Len(result) > order
               /\ ~MapHas(transitionTable, StateAfter(Len(result)))
        /\ (\A k \in (order + 1)..Len(result) : MapHas(transitionTable, StateAfter(k)))
               => Len(result) = order + call.length

\* C15: whatever the user did before (changing segmentation, order or text,
\* training, generating), when generateText calls generate with a
\* segmentType on a model that has been trained, the model was last trained
\* with that segmentType on the current inputText and order.
C15_GenerateMatchesTraining ==
    (flow.pc = "done" /\ flow.generateCalled /\ flow.generatedOn # <<>>) =>
        flow.generatedOn = <<[segmentType |-> flow.segmentType,
                              inputText |-> home.inputText,
                              order |-> generator.order]>>

\* C16: when the training generateText starts on an untrained model fails,
\* generate is not called afterwards, onError is called once and the error
\* shown is the one train threw; and a call that has ended, failed or not,
\* leaves isTraining and isGenerating false.
C16_FailedAutoTrainEndsFlow ==
    /\ (flow.pc = "done" /\ flow.origin = "generateText" /\ flow.trainFailed) =>
           /\ ~flow.generateCalled
           /\ Len(flow.errors) = 1
           /\ home.error = flow.errors[1]
           /\ home.error \in InvalidInput
    /\ flow.pc = "done" => ~generator.isTraining /\ ~generator.isGenerating
====
